---- MODULE Spec2Model ----
(***************************************************************************)
(* Model of the node fault-isolation search of scripts/atest:              *)
(* bisect_nodes (nccltest_diag_bisect.py, nccltest_allreduce_perf_bisect.py)*)
(* driven by main.  Node identifiers are modelled as naturals; their       *)
(* order is the order sorted() uses for the cache key.                     *)
(***************************************************************************)
EXTENDS Naturals, Integers, Sequences, FiniteSets, TLC

VARIABLES
    nodes,          \* main: nodes read from the hostfile / bisect_nodes: nodes
    min_group,      \* bisect_nodes parameter min_group
    good_nodes,     \* bisect_nodes parameter good_nodes (<<>> models None / [])
    B,              \* the oracle: nodes whose presence makes a group fail
    mono,           \* TRUE: test_func fails iff the group meets B; FALSE: any verdict
    pc,             \* position in main / bisect_nodes
    stack,          \* bisect_nodes local: stack
    cache,          \* bisect_nodes local: cache (function keyed by sorted tuples)
    known_good,     \* bisect_nodes local: known_good
    bad,            \* bisect_nodes local: bad
    group,          \* bisect_nodes local: group (last popped)
    passed,         \* bisect_nodes local: passed
    i,              \* exclusion loop index (1-based position of suspect)
    identified_bad, \* bisect_nodes local: identified_bad
    remaining,      \* bisect_nodes local: remaining
    remaining_passed, \* bisect_nodes local: remaining_passed
    result,         \* value returned by bisect_nodes, as a set
    returned,       \* value returned by bisect_nodes, as the list it is
    calls,          \* history: the test_func invocations so far, in order
    excl,           \* history: verdicts of the candidates of the current exclusion scan
    swapped,        \* TRUE in the variant run that pushes group[mid:] first
    runNo,          \* 1 for the first run, 2 for a repeated run
    prevCalls,      \* calls of the first run (kept for the comparison)
    prevResult,     \* result of the first run
    popped,         \* history: the non-empty groups popped so far, with their verdicts
    running,        \* number of mpirun processes started and not yet returned
    mpirun,         \* one test_func execution: tool, threshold, process outcome, verdict
    spans,          \* history: the positions <<first, last>> in nodes of each group on the stack
    span,           \* history: the positions in nodes of the last popped group
    hostfile        \* read_nodes: the hostfile (no lines where reading is not modelled)

vars == <<nodes, min_group, good_nodes, B, mono, pc, stack, cache, known_good,
          bad, group, passed, i, identified_bad, remaining, remaining_passed,
          result, returned, calls, excl, swapped, runNo, prevCalls, prevResult,
          popped, running, mpirun, spans, span, hostfile>>

inputs == <<nodes, min_group, good_nodes, B, mono, hostfile>>
hist2  == <<prevCalls, prevResult>>

----------------------------------------------------------------------------
(* Bounds of the small-input specification *)
MaxNode     == 2    \* node identifiers 1..MaxNode
MaxLen      == 3    \* longest input list
MaxMinGroup == 3    \* largest min_group
MaxGood     == 1    \* longest initial known-good list

NodeIds == 1..MaxNode
GoodIds == 0..MaxNode      \* 0 is a node that is not in the hostfile

----------------------------------------------------------------------------
(* Python list helpers *)

Elems(s) == {s[j] : j \in 1..Len(s)}

SeqsUpTo(S, n) == UNION {[1..m -> S] : m \in 0..n}

\* sorted(group): ascending, duplicates kept
RECURSIVE InsertSorted(_, _)
InsertSorted(x, s) ==
    IF s = <<>> THEN <<x>>
    ELSE IF x <= Head(s) THEN <<x>> \o s
    ELSE <<Head(s)>> \o InsertSorted(x, Tail(s))

RECURSIVE sorted(_)
sorted(s) == IF s = <<>> THEN <<>> ELSE InsertSorted(Head(s), sorted(Tail(s)))

\* variant: the key is the group as given, not sorted
KeyUnsorted(g) == g

\* tuple(sorted(group))
KeyOf(g) == sorted(g)

\* variant: the comprehension drops the member after the suspect
RemoveAtNext(g, k) ==
    [j \in 1..(Len(g) - 1) |-> IF j < (k % Len(g)) + 1 THEN g[j] ELSE g[j + 1]]

\* [n for j, n in enumerate(group) if j != i]
RemoveAt(g, k) == [j \in 1..(Len(g) - 1) |-> IF j < k THEN g[j] ELSE g[j + 1]]

\* variant: known_good.insert(0, n)
RECURSIVE MarkGoodFront(_, _)
MarkGoodFront(kg, g) ==
    IF g = <<>> THEN kg
    ELSE MarkGoodFront(IF Head(g) \in Elems(kg) THEN kg ELSE <<Head(g)>> \o kg, Tail(g))

\* variant: only group[0] is marked
MarkGoodHead(kg, g) ==
    IF g = <<>> \/ g[1] \in Elems(kg) THEN kg ELSE Append(kg, g[1])

\* for n in group: if n not in known_good: known_good.append(n)
RECURSIVE MarkGood(_, _)
MarkGood(kg, g) ==
    IF g = <<>> THEN kg
    ELSE MarkGood(IF Head(g) \in Elems(kg) THEN kg ELSE Append(kg, Head(g)), Tail(g))

\* variant: the verdict is not stored
CachePutNothing(c, key, v) == c

\* variant: cache = {key: v}, the earlier entries are lost
CachePutOnly(c, key, v) == [k \in {key} |-> v]

\* cache[key] = v
CachePut(c, key, v) == [k \in (DOMAIN c) \cup {key} |-> IF k = key THEN v ELSE c[k]]

EmptyCache == [k \in {} |-> FALSE]

\* variant: pad with the most recently added known-good node
FillerLast(kg) == kg[Len(kg)]

\* known_good[0]
Filler(kg) == kg[1]

\* variant: mpirun runs without the timeout wrapper and may never return
VerdictsMayHang(g) == IF Len(g) >= 2 THEN {} ELSE {TRUE, FALSE}

\* the verdicts test_func can return for a group: a monotone oracle fails iff
\* the group meets B; any other oracle is free, except that a repeated run
\* against the same (deterministic) oracle gets the verdict the first run got
\* for the same list
Verdicts(g) ==
    IF mono THEN {Elems(g) \cap B = {}}
    ELSE IF \E c \in 1..Len(prevCalls) : prevCalls[c].arg = g
         THEN {prevCalls[c].verdict : c \in {d \in 1..Len(prevCalls) : prevCalls[d].arg = g}}
         ELSE BOOLEAN

\* variant: the cache survives the call (a mutable default argument)
StaleCache(c) == c

\* cache: Dict = {} at the start of bisect_nodes (c is the previous run's cache)
FreshCache(c) == EmptyCache

\* variant: known_good = []
SeedIgnored(gn) == <<>>

\* known_good = list(good_nodes) if good_nodes else []
SeedKnownGood(gn) == gn

\* variant: split off the first node only
HalvesUnbalanced(g) == <<SubSeq(g, 1, 1), SubSeq(g, 2, Len(g))>>

\* variant: the second slice starts one position late
HalvesDropMiddle(g) ==
    LET mid == Len(g) \div 2
    IN  <<SubSeq(g, 1, mid), SubSeq(g, mid + 2, Len(g))>>

\* variant: group[:mid] is pushed twice
HalvesFirstTwice(g) ==
    LET mid == Len(g) \div 2
    IN  <<SubSeq(g, 1, mid), SubSeq(g, 1, mid)>>

\* variant: mid = (len(group) + 1) // 2
HalvesCeil(g) ==
    LET mid == (Len(g) + 1) \div 2
    IN  <<SubSeq(g, 1, mid), SubSeq(g, mid + 1, Len(g))>>

\* the two halves in the order they are pushed: group[:mid], then group[mid:]
Halves(g) ==
    LET mid == Len(g) \div 2
    IN  <<SubSeq(g, 1, mid), SubSeq(g, mid + 1, Len(g))>>

\* the positions of the two slices of a group at positions sp: group[:mid]
\* starts where the group starts, group[mid:] ends where the group ends
HalfSpans(sp, h) ==
    <<<<sp[1], sp[1] + Len(h[1]) - 1>>, <<sp[2] - Len(h[2]) + 1, sp[2]>>>>

----------------------------------------------------------------------------
(* Initial states *)

\* no single test_func execution is being looked at
NoTest == [phase |-> "none"]

\* nothing has run yet
Fresh ==
    /\ stack = <<>>
    /\ cache = EmptyCache
    /\ known_good = <<>>
    /\ bad = <<>>
    /\ group = <<>>
    /\ passed = FALSE
    /\ i = 0
    /\ identified_bad = <<>>
    /\ remaining = <<>>
    /\ remaining_passed = FALSE
    /\ result = {}
    /\ returned = <<>>
    /\ calls = <<>>
    /\ excl = <<>>
    /\ swapped = FALSE
    /\ runNo = 1
    /\ prevCalls = <<>>
    /\ prevResult = {}
    /\ popped = <<>>
    /\ running = 0
    /\ mpirun = NoTest
    /\ spans = <<>>
    /\ span = <<1, 0>>

\* main holds the nodes read from the hostfile
InitLocals ==
    /\ pc = "main"
    /\ hostfile = [found |-> TRUE, lines |-> <<>>]
    /\ Fresh

Init ==
    /\ nodes \in SeqsUpTo(NodeIds, MaxLen)
    /\ min_group \in 1..MaxMinGroup
    /\ good_nodes \in SeqsUpTo(GoodIds, MaxGood)
    /\ B \in SUBSET NodeIds
    /\ mono \in BOOLEAN
    /\ (~mono => B = {})
    /\ InitLocals

----------------------------------------------------------------------------
(* bisect_nodes entry: bad = [], stack = [nodes], cache = {}, known_good seeded *)
BisectEntry ==
    /\ bad' = <<>>
    /\ stack' = <<nodes>>
    /\ spans' = <<<<1, Len(nodes)>>>>
    /\ cache' = FreshCache(cache)
    /\ known_good' = SeedKnownGood(good_nodes)

(* variant: the empty-list check is missing *)
mainNoGuard ==
    /\ pc = "main"
    /\ pc' = "loop"
    /\ BisectEntry
    /\ UNCHANGED <<inputs, mpirun, popped, running, group, span, passed, i, identified_bad,
                   remaining, remaining_passed, result, returned, calls, excl, swapped, runNo, hist2>>

(* main: read the hostfile, abort on an empty list, else start bisect_nodes *)
main ==
    /\ pc = "main"
    /\ IF nodes = <<>>
       THEN /\ pc' = "exit"
            /\ UNCHANGED <<stack, spans, known_good, cache, bad>>
       ELSE /\ pc' = "loop"
            /\ BisectEntry
    /\ UNCHANGED <<inputs, mpirun, popped, running, group, span, passed, i, identified_bad, remaining,
                   remaining_passed, result, returned, calls, excl, swapped, runNo, hist2>>

(* while stack: group = stack.pop(); skip an empty group; cache lookup *)
Pop ==
    /\ pc = "loop"
    /\ stack # <<>>
    /\ LET g == stack[Len(stack)]
       IN  /\ group' = g
           /\ stack' = SubSeq(stack, 1, Len(stack) - 1)
           /\ spans' = SubSeq(spans, 1, Len(spans) - 1)
           /\ span' = spans[Len(spans)]
           /\ IF g = <<>>
              THEN /\ pc' = "loop"
                   /\ UNCHANGED <<passed, popped, running>>
              ELSE IF KeyOf(g) \in DOMAIN cache
              THEN /\ passed' = cache[KeyOf(g)]
                   /\ popped' = Append(popped, [group |-> g, passed |-> cache[KeyOf(g)],
                                                 span |-> spans[Len(spans)]])
                   /\ pc' = "branch"
                   /\ UNCHANGED running
              ELSE /\ pc' = "call_group"
                   /\ running' = running + 1
                   /\ UNCHANGED <<passed, popped>>
    /\ UNCHANGED <<inputs, mpirun, cache, known_good, bad, i, identified_bad, remaining,
                   remaining_passed, result, returned, calls, excl, swapped, runNo, hist2>>

(* variant: the test process is started and not waited for *)
TestGroupNoWait ==
    /\ pc = "call_group"
    /\ \E v \in Verdicts(group) :
          /\ passed' = v
          /\ cache' = CachePut(cache, KeyOf(group), v)
          /\ calls' = Append(calls, [site |-> "group", arg |-> group, verdict |-> v])
          /\ popped' = Append(popped, [group |-> group, passed |-> v, span |-> span])
    /\ pc' = "branch"
    /\ UNCHANGED <<inputs, mpirun, running, stack, spans, known_good, bad, group, span, i,
                   identified_bad, remaining, remaining_passed, result, returned, excl,
                   swapped, runNo, hist2>>

(* passed = test_func(group); cache[key] = passed *)
TestGroup ==
    /\ pc = "call_group"
    /\ \E v \in Verdicts(group) :
          /\ passed' = v
          /\ cache' = CachePut(cache, KeyOf(group), v)
          /\ calls' = Append(calls, [site |-> "group", arg |-> group, verdict |-> v])
          /\ popped' = Append(popped, [group |-> group, passed |-> v, span |-> span])
    /\ running' = running - 1
    /\ pc' = "branch"
    /\ UNCHANGED <<inputs, mpirun, stack, spans, known_good, bad, group, span, i, identified_bad,
                   remaining, remaining_passed, result, returned, excl, swapped, runNo, hist2>>

(* variant: the continue after marking the members is missing *)
PassedFallsThrough ==
    /\ pc = "branch"
    /\ passed
    /\ known_good' = MarkGood(known_good, group)
    /\ IF Len(group) <= min_group
       THEN /\ identified_bad' = <<>>
            /\ i' = 1
            /\ excl' = <<>>
            /\ pc' = "excl"
            /\ UNCHANGED <<stack, spans>>
       ELSE /\ stack' = stack \o <<SubSeq(group, 1, Len(group) \div 2),
                                   SubSeq(group, (Len(group) \div 2) + 1, Len(group))>>
            /\ spans' = spans \o HalfSpans(span, Halves(group))
            /\ pc' = "loop"
            /\ UNCHANGED <<identified_bad, i, excl>>
    /\ UNCHANGED <<inputs, mpirun, popped, running, cache, bad, group, span, passed, remaining, remaining_passed,
                   result, returned, calls, swapped, runNo, hist2>>

(* if passed: mark the members known good; continue *)
Passed ==
    /\ pc = "branch"
    /\ passed
    /\ known_good' = MarkGood(known_good, group)
    /\ pc' = "loop"
    /\ UNCHANGED <<inputs, mpirun, popped, running, stack, spans, cache, bad, group, span, passed, i, identified_bad,
                   remaining, remaining_passed, result, returned, calls, excl, swapped,
                   runNo, hist2>>

(* if len(group) <= min_group: identified_bad = [] and start the scan *)
ExclusionStart ==
    /\ pc = "branch"
    /\ ~passed
    /\ Len(group) <= min_group
    /\ identified_bad' = <<>>
    /\ i' = 1
    /\ excl' = <<>>
    /\ pc' = "excl"
    /\ UNCHANGED <<inputs, mpirun, popped, running, stack, spans, cache, known_good, bad, group, span, passed,
                   remaining, remaining_passed, result, returned, calls, swapped, runNo, hist2>>

(* variant: a short candidate is tested as it is when nothing can pad it *)
ExclusionStepNoSkip ==
    /\ pc = "excl"
    /\ i <= Len(group)
    /\ LET rem0 == RemoveAt(group, i)
           rem  == IF Len(rem0) < 2 /\ known_good # <<>>
                   THEN Append(rem0, Filler(known_good)) ELSE rem0
       IN  /\ remaining' = rem
           /\ UNCHANGED <<i, excl>>
           /\ IF KeyOf(rem) \in DOMAIN cache
              THEN /\ remaining_passed' = cache[KeyOf(rem)]
                   /\ pc' = "excl_check"
                   /\ UNCHANGED running
              ELSE /\ pc' = "call_remaining"
                   /\ running' = running + 1
                   /\ UNCHANGED remaining_passed
    /\ UNCHANGED <<inputs, mpirun, popped, stack, spans, cache, known_good, bad, group, span,
                   passed, identified_bad, result, returned, calls, swapped, runNo, hist2>>

(* variant: a candidate that cannot be padded ends the scan and the run *)
ExclusionStepAbort ==
    /\ pc = "excl"
    /\ i <= Len(group)
    /\ LET rem0 == RemoveAt(group, i)
           skip == Len(rem0) < 2 /\ known_good = <<>>
           rem  == IF Len(rem0) < 2 /\ known_good # <<>>
                   THEN Append(rem0, Filler(known_good)) ELSE rem0
       IN  IF skip
           THEN /\ remaining' = rem0
                /\ pc' = "exit"
                /\ UNCHANGED <<i, excl, remaining_passed, running>>
           ELSE /\ remaining' = rem
                /\ UNCHANGED <<i, excl>>
                /\ IF KeyOf(rem) \in DOMAIN cache
                   THEN /\ remaining_passed' = cache[KeyOf(rem)]
                        /\ pc' = "excl_check"
                        /\ UNCHANGED running
                   ELSE /\ pc' = "call_remaining"
                        /\ running' = running + 1
                        /\ UNCHANGED remaining_passed
    /\ UNCHANGED <<inputs, mpirun, popped, stack, spans, cache, known_good, bad, group, span, passed,
                   identified_bad, result, returned, calls, swapped, runNo, hist2>>

(* one suspect: build remaining, pad or skip, cache lookup *)
ExclusionStep ==
    /\ pc = "excl"
    /\ i <= Len(group)
    /\ LET rem0 == RemoveAt(group, i)
           skip == Len(rem0) < 2 /\ known_good = <<>>
           rem  == IF Len(rem0) < 2 /\ known_good # <<>>
                   THEN Append(rem0, Filler(known_good)) ELSE rem0
       IN  IF skip
           THEN /\ remaining' = rem0
                /\ i' = i + 1
                /\ excl' = Append(excl, "skipped")
                /\ pc' = "excl"
                /\ UNCHANGED <<remaining_passed, running>>
           ELSE /\ remaining' = rem
                /\ UNCHANGED <<i, excl>>
                /\ IF KeyOf(rem) \in DOMAIN cache
                   THEN /\ remaining_passed' = cache[KeyOf(rem)]
                        /\ pc' = "excl_check"
                        /\ UNCHANGED running
                   ELSE /\ pc' = "call_remaining"
                        /\ running' = running + 1
                        /\ UNCHANGED remaining_passed
    /\ UNCHANGED <<inputs, mpirun, popped, stack, spans, cache, known_good, bad, group, span, passed,
                   identified_bad, result, returned, calls, swapped, runNo, hist2>>

(* remaining_passed = test_func(remaining); cache[remaining_key] = remaining_passed *)
TestRemaining ==
    /\ pc = "call_remaining"
    /\ \E v \in Verdicts(remaining) :
          /\ remaining_passed' = v
          /\ cache' = CachePut(cache, KeyOf(remaining), v)
          /\ calls' = Append(calls, [site |-> "remaining", arg |-> remaining, verdict |-> v])
    /\ running' = running - 1
    /\ pc' = "excl_check"
    /\ UNCHANGED <<inputs, mpirun, popped, stack, spans, known_good, bad, group, span, passed, i,
                   identified_bad, remaining, result, returned, excl, swapped, runNo, hist2>>

(* variant: the suspect is identified when its candidate still fails *)
ExclusionCheckOnFail ==
    /\ pc = "excl_check"
    /\ identified_bad' = IF ~remaining_passed
                         THEN Append(identified_bad, group[i])
                         ELSE identified_bad
    /\ excl' = Append(excl, IF remaining_passed THEN "pass" ELSE "fail")
    /\ i' = i + 1
    /\ pc' = "excl"
    /\ UNCHANGED <<inputs, mpirun, popped, running, stack, spans, cache, known_good, bad, group, span, passed,
                   remaining, remaining_passed, result, returned, calls, swapped, runNo, hist2>>

(* if remaining_passed: identified_bad.append(suspect); next suspect *)
ExclusionCheck ==
    /\ pc = "excl_check"
    /\ identified_bad' = IF remaining_passed
                         THEN Append(identified_bad, group[i])
                         ELSE identified_bad
    /\ excl' = Append(excl, IF remaining_passed THEN "pass" ELSE "fail")
    /\ i' = i + 1
    /\ pc' = "excl"
    /\ UNCHANGED <<inputs, mpirun, popped, running, stack, spans, cache, known_good, bad, group, span, passed,
                   remaining, remaining_passed, result, returned, calls, swapped, runNo, hist2>>

\* variant: always report the whole group
VerdictWholeGroup(ib, g) == g

\* variant: no fallback when nothing was identified
VerdictIdentifiedOnly(ib, g) == ib

\* variant: the fallback reports only the first member
VerdictFirstOnly(ib, g) == IF ib # <<>> THEN ib ELSE <<g[1]>>

\* variant: the fallback reports the last candidate instead of the group
VerdictRemaining(ib, g) == IF ib # <<>> THEN ib ELSE remaining

\* variant: the node used for padding is reported with the group
VerdictAndFiller(ib, g) ==
    (IF ib # <<>> THEN ib ELSE g) \o (IF known_good # <<>> THEN <<known_good[1]>> ELSE <<>>)

\* what the end of the scan appends to bad
Verdict(ib, g) == IF ib # <<>> THEN ib ELSE g

(* after the scan: bad.extend(identified_bad) or bad.extend(group); continue *)
ExclusionEnd ==
    /\ pc = "excl"
    /\ i > Len(group)
    /\ bad' = bad \o Verdict(identified_bad, group)
    /\ pc' = "loop"
    /\ UNCHANGED <<inputs, mpirun, popped, running, stack, spans, cache, known_good, group, span, passed, i,
                   identified_bad, remaining, remaining_passed, result, returned, calls,
                   excl, swapped, runNo, hist2>>

(* mid = len(group) // 2; push group[:mid], then group[mid:] *)
Split ==
    /\ pc = "branch"
    /\ ~passed
    /\ Len(group) > min_group
    /\ LET h == Halves(group)
           p == HalfSpans(span, h)
       IN  /\ stack' = IF swapped THEN stack \o <<h[2], h[1]>>
                                  ELSE stack \o <<h[1], h[2]>>
           /\ spans' = IF swapped THEN spans \o <<p[2], p[1]>>
                                  ELSE spans \o <<p[1], p[2]>>
    /\ pc' = "loop"
    /\ UNCHANGED <<inputs, mpirun, popped, running, cache, known_good, bad, group, span, passed, i,
                   identified_bad, remaining, remaining_passed, result, returned, calls,
                   excl, swapped, runNo, hist2>>

\* variant: return bad
list_bad(b) == {b}

\* list(set(bad)): the members of bad, each once, in the order the set yields
\* them (any order)
list_set(b) ==
    {r \in [1..Cardinality(Elems(b)) -> Elems(b)] : \A x \in Elems(b) : \E j \in DOMAIN r : r[j] = x}

(* return list(set(bad)) *)
Return ==
    /\ pc = "loop"
    /\ stack = <<>>
    /\ \E r \in list_set(bad) :
          /\ returned' = r
          /\ result' = Elems(r)
    /\ pc' = "done"
    /\ UNCHANGED <<inputs, mpirun, popped, running, stack, spans, cache, known_good, bad, group, span, passed, i,
                   identified_bad, remaining, remaining_passed, calls, excl,
                   swapped, runNo, hist2>>

Next ==
    \/ main
    \/ Pop
    \/ TestGroup
    \/ Passed
    \/ ExclusionStart
    \/ ExclusionStep
    \/ TestRemaining
    \/ ExclusionCheck
    \/ ExclusionEnd
    \/ Split
    \/ Return

Spec == Init /\ [][Next]_vars

\* any oracle: every verdict is possible at every call (this covers the
\* monotone oracles too)
InitAnyOracle == Init /\ ~mono

\* the interpreter keeps executing the single thread: some step is always taken
SpecLive == InitAnyOracle /\ [][Next]_vars /\ WF_vars(Next)

----------------------------------------------------------------------------
(* The 8-node scenarios: 8 distinct nodes, one faulty node k or the two     *)
(* faulty nodes 3 and 7, min_group 1, 2 or 4, no initial known-good list.   *)

Nodes8 == 1..8
MinGroups8 == {1, 2, 4}
Others8 == <<1, 2, 4, 5, 6, 8>>

Rot8(r) == [j \in 1..8 |-> ((j + r - 1) % 8) + 1]
Rev8(s) == [j \in 1..8 |-> s[9 - j]]
\* node 3 at position p, node 7 at position q, the others ascending
Place8(p, q) ==
    [j \in 1..8 |-> IF j = p THEN 3 ELSE IF j = q THEN 7
                    ELSE Others8[j - (IF p < j THEN 1 ELSE 0) - (IF q < j THEN 1 ELSE 0)]]

Orderings8 ==
    {Rot8(r) : r \in 0..7} \cup {Rev8(Rot8(r)) : r \in 0..7}
    \cup {Place8(x[1], x[2]) : x \in {y \in (1..8) \X (1..8) : y[1] # y[2]}}

Init8 ==
    /\ nodes \in Orderings8
    /\ min_group \in MinGroups8
    /\ good_nodes = <<>>
    /\ B \in {{k} : k \in Nodes8} \cup {{3, 7}}
    /\ mono = TRUE
    /\ InitLocals

Spec8 == Init8 /\ [][Next]_vars

----------------------------------------------------------------------------
(* Lists without a repeated node, in every ordering: n nodes 1..n, every     *)
(* min_group up to the longest list, and either one faulty node, with no     *)
(* seed or a seed of one node (node 0 is not in the list), or an oracle free *)
(* to answer anything, with no seed.                                         *)

MaxDistinct == 4     \* longest list

Orderings(n) == {f \in [1..n -> 1..n] : \A a, b \in 1..n : a # b => f[a] # f[b]}

InitDistinct ==
    /\ nodes \in UNION {Orderings(n) : n \in 1..MaxDistinct}
    /\ min_group \in 1..MaxDistinct
    /\ good_nodes \in {<<>>} \cup {<<g>> : g \in 0..MaxDistinct}
    /\ B \in {{}} \cup {{k} : k \in 1..MaxDistinct}
    /\ mono = (B # {})
    /\ (~mono => good_nodes = <<>>)
    /\ InitLocals

SpecDistinct == InitDistinct /\ [][Next]_vars

----------------------------------------------------------------------------
(* Two runs of bisect_nodes on the same inputs against the same oracle.     *)

RunAgain(sw) ==
    /\ pc = "done"
    /\ runNo = 1
    /\ runNo' = 2
    /\ swapped' = sw
    /\ prevCalls' = calls
    /\ prevResult' = result
    /\ BisectEntry
    /\ pc' = "loop"
    /\ group' = <<>>
    /\ span' = <<1, 0>>
    /\ passed' = FALSE
    /\ i' = 0
    /\ identified_bad' = <<>>
    /\ remaining' = <<>>
    /\ remaining_passed' = FALSE
    /\ result' = {}
    /\ returned' = <<>>
    /\ calls' = <<>>
    /\ excl' = <<>>
    /\ popped' = <<>>
    /\ running' = 0
    /\ UNCHANGED <<inputs, mpirun>>

\* the program, run a second time
Rerun == RunAgain(FALSE)
\* the variant that pushes group[mid:] before group[:mid], run after the program
RerunSwapped == RunAgain(TRUE)

SpecTwice == Init /\ [][Next \/ Rerun]_vars
SpecSwap  == Init /\ [][Next \/ RerunSwapped]_vars

----------------------------------------------------------------------------
(* bisect_nodes of nccltest_allreduce_perf_bisect.py, run on the same nodes, *)
(* min_group and good_nodes against the same oracle after the run of the     *)
(* AllGather tool's bisect_nodes.  Its positions are the pc values perf_*.   *)

(* bisect_nodes entry: bad = [], stack = [nodes], cache = {}, known_good seeded *)
PerfEntry ==
    /\ pc = "done"
    /\ runNo = 1
    /\ runNo' = 2
    /\ prevCalls' = calls
    /\ prevResult' = result
    /\ bad' = <<>>
    /\ stack' = <<nodes>>
    /\ spans' = <<<<1, Len(nodes)>>>>
    /\ cache' = EmptyCache
    /\ known_good' = SeedKnownGood(good_nodes)
    /\ pc' = "perf_loop"
    /\ group' = <<>>
    /\ span' = <<1, 0>>
    /\ passed' = FALSE
    /\ i' = 0
    /\ identified_bad' = <<>>
    /\ remaining' = <<>>
    /\ remaining_passed' = FALSE
    /\ result' = {}
    /\ returned' = <<>>
    /\ calls' = <<>>
    /\ excl' = <<>>
    /\ popped' = <<>>
    /\ running' = 0
    /\ UNCHANGED <<inputs, mpirun, swapped>>

(* while stack: group = stack.pop(); skip an empty group; cache lookup *)
PerfPop ==
    /\ pc = "perf_loop"
    /\ stack # <<>>
    /\ LET g == stack[Len(stack)]
       IN  /\ group' = g
           /\ stack' = SubSeq(stack, 1, Len(stack) - 1)
           /\ spans' = SubSeq(spans, 1, Len(spans) - 1)
           /\ span' = spans[Len(spans)]
           /\ IF g = <<>>
              THEN /\ pc' = "perf_loop"
                   /\ UNCHANGED <<passed, popped, running>>
              ELSE IF KeyOf(g) \in DOMAIN cache
              THEN /\ passed' = cache[KeyOf(g)]
                   /\ popped' = Append(popped, [group |-> g, passed |-> cache[KeyOf(g)],
                                                 span |-> spans[Len(spans)]])
                   /\ pc' = "perf_branch"
                   /\ UNCHANGED running
              ELSE /\ pc' = "perf_call_group"
                   /\ running' = running + 1
                   /\ UNCHANGED <<passed, popped>>
    /\ UNCHANGED <<inputs, mpirun, cache, known_good, bad, i, identified_bad, remaining,
                   remaining_passed, result, returned, calls, excl, swapped, runNo, hist2>>

(* passed = test_func(group); cache[key] = passed *)
PerfTestGroup ==
    /\ pc = "perf_call_group"
    /\ \E v \in Verdicts(group) :
          /\ passed' = v
          /\ cache' = CachePut(cache, KeyOf(group), v)
          /\ calls' = Append(calls, [site |-> "group", arg |-> group, verdict |-> v])
          /\ popped' = Append(popped, [group |-> group, passed |-> v, span |-> span])
    /\ running' = running - 1
    /\ pc' = "perf_branch"
    /\ UNCHANGED <<inputs, mpirun, stack, spans, known_good, bad, group, span, i, identified_bad,
                   remaining, remaining_passed, result, returned, excl, swapped, runNo, hist2>>

(* if passed: mark the members known good; continue *)
PerfPassed ==
    /\ pc = "perf_branch"
    /\ passed
    /\ known_good' = MarkGood(known_good, group)
    /\ pc' = "perf_loop"
    /\ UNCHANGED <<inputs, mpirun, popped, running, stack, spans, cache, bad, group, span, passed, i, identified_bad,
                   remaining, remaining_passed, result, returned, calls, excl, swapped,
                   runNo, hist2>>

(* if len(group) <= min_group: identified_bad = [] and start the scan *)
PerfExclusionStart ==
    /\ pc = "perf_branch"
    /\ ~passed
    /\ Len(group) <= min_group
    /\ identified_bad' = <<>>
    /\ i' = 1
    /\ excl' = <<>>
    /\ pc' = "perf_excl"
    /\ UNCHANGED <<inputs, mpirun, popped, running, stack, spans, cache, known_good, bad, group, span, passed,
                   remaining, remaining_passed, result, returned, calls, swapped, runNo, hist2>>

(* one suspect: build remaining, pad or skip, cache lookup *)
PerfExclusionStep ==
    /\ pc = "perf_excl"
    /\ i <= Len(group)
    /\ LET rem0 == RemoveAt(group, i)
           skip == Len(rem0) < 2 /\ known_good = <<>>
           rem  == IF Len(rem0) < 2 /\ known_good # <<>>
                   THEN Append(rem0, Filler(known_good)) ELSE rem0
       IN  IF skip
           THEN /\ remaining' = rem0
                /\ i' = i + 1
                /\ excl' = Append(excl, "skipped")
                /\ pc' = "perf_excl"
                /\ UNCHANGED <<remaining_passed, running>>
           ELSE /\ remaining' = rem
                /\ UNCHANGED <<i, excl>>
                /\ IF KeyOf(rem) \in DOMAIN cache
                   THEN /\ remaining_passed' = cache[KeyOf(rem)]
                        /\ pc' = "perf_excl_check"
                        /\ UNCHANGED running
                   ELSE /\ pc' = "perf_call_remaining"
                        /\ running' = running + 1
                        /\ UNCHANGED remaining_passed
    /\ UNCHANGED <<inputs, mpirun, popped, stack, spans, cache, known_good, bad, group, span, passed,
                   identified_bad, result, returned, calls, swapped, runNo, hist2>>

(* remaining_passed = test_func(remaining); cache[remaining_key] = remaining_passed *)
PerfTestRemaining ==
    /\ pc = "perf_call_remaining"
    /\ \E v \in Verdicts(remaining) :
          /\ remaining_passed' = v
          /\ cache' = CachePut(cache, KeyOf(remaining), v)
          /\ calls' = Append(calls, [site |-> "remaining", arg |-> remaining, verdict |-> v])
    /\ running' = running - 1
    /\ pc' = "perf_excl_check"
    /\ UNCHANGED <<inputs, mpirun, popped, stack, spans, known_good, bad, group, span, passed, i,
                   identified_bad, remaining, result, returned, excl, swapped, runNo, hist2>>

(* if remaining_passed: identified_bad.append(suspect); next suspect *)
PerfExclusionCheck ==
    /\ pc = "perf_excl_check"
    /\ identified_bad' = IF remaining_passed
                         THEN Append(identified_bad, group[i])
                         ELSE identified_bad
    /\ excl' = Append(excl, IF remaining_passed THEN "pass" ELSE "fail")
    /\ i' = i + 1
    /\ pc' = "perf_excl"
    /\ UNCHANGED <<inputs, mpirun, popped, running, stack, spans, cache, known_good, bad, group, span, passed,
                   remaining, remaining_passed, result, returned, calls, swapped, runNo, hist2>>

(* after the scan: bad.extend(identified_bad) or bad.extend(group); continue *)
PerfExclusionEnd ==
    /\ pc = "perf_excl"
    /\ i > Len(group)
    /\ bad' = bad \o Verdict(identified_bad, group)
    /\ pc' = "perf_loop"
    /\ UNCHANGED <<inputs, mpirun, popped, running, stack, spans, cache, known_good, group, span, passed, i,
                   identified_bad, remaining, remaining_passed, result, returned, calls,
                   excl, swapped, runNo, hist2>>

(* variant: group[mid:] is pushed before group[:mid] *)
PerfSplitReversed ==
    /\ pc = "perf_branch"
    /\ ~passed
    /\ Len(group) > min_group
    /\ LET h == Halves(group)
           p == HalfSpans(span, h)
       IN  /\ stack' = stack \o <<h[2], h[1]>>
           /\ spans' = spans \o <<p[2], p[1]>>
    /\ pc' = "perf_loop"
    /\ UNCHANGED <<inputs, mpirun, popped, running, cache, known_good, bad, group, span, passed, i,
                   identified_bad, remaining, remaining_passed, result, returned, calls,
                   excl, swapped, runNo, hist2>>

(* mid = len(group) // 2; push group[:mid], then group[mid:] *)
PerfSplit ==
    /\ pc = "perf_branch"
    /\ ~passed
    /\ Len(group) > min_group
    /\ LET h == Halves(group)
           p == HalfSpans(span, h)
       IN  /\ stack' = stack \o <<h[1], h[2]>>
           /\ spans' = spans \o <<p[1], p[2]>>
    /\ pc' = "perf_loop"
    /\ UNCHANGED <<inputs, mpirun, popped, running, cache, known_good, bad, group, span, passed, i,
                   identified_bad, remaining, remaining_passed, result, returned, calls,
                   excl, swapped, runNo, hist2>>

(* return list(set(bad)) *)
PerfReturn ==
    /\ pc = "perf_loop"
    /\ stack = <<>>
    /\ \E r \in list_set(bad) :
          /\ returned' = r
          /\ result' = Elems(r)
    /\ pc' = "done"
    /\ UNCHANGED <<inputs, mpirun, popped, running, stack, spans, cache, known_good, bad, group, span, passed, i,
                   identified_bad, remaining, remaining_passed, calls, excl,
                   swapped, runNo, hist2>>

NextPerf ==
    \/ PerfPop
    \/ PerfTestGroup
    \/ PerfPassed
    \/ PerfExclusionStart
    \/ PerfExclusionStep
    \/ PerfTestRemaining
    \/ PerfExclusionCheck
    \/ PerfExclusionEnd
    \/ PerfSplit
    \/ PerfReturn

SpecBoth == Init /\ [][Next \/ PerfEntry \/ NextPerf]_vars

----------------------------------------------------------------------------
(* One execution of test_func in either tool: mpirun is run under the       *)
(* timeout wrapper, then the verdict is taken from its exit code and output. *)

MaxBw == 2                      \* bandwidths and thresholds 0..MaxBw
ExitCodes == {0, 1, 124}        \* success, mpirun error, killed by timeout
Tools == {"allgather", "allreduce"}
\* the "Avg bus bandwidth" line of the output: absent, with a number, unparsable
Lines == {"none", "number", "garbled"}

\* parse_bandwidth(output) -> (bw is not None, bw or 0.0)
parse_bandwidth(line, bw) == IF line = "number" THEN <<TRUE, bw>> ELSE <<FALSE, 0>>

\* run_allgather_test: passed = "Avg bus bandwidth" in output
AllgatherPassed(exit_code, line, bw) == line # "none"

\* allreduce test_func: passed = exit_code == 0, and bw >= min_bandwidth when a
\* threshold is set and a bandwidth was parsed
AllreducePassed(exit_code, line, bw, min_bandwidth) ==
    LET p == parse_bandwidth(line, bw)
    IN  /\ exit_code = 0
        /\ (min_bandwidth # 0 /\ p[1]) => p[2] >= min_bandwidth

InitTest ==
    /\ nodes = <<1, 2>>
    /\ min_group = 2
    /\ good_nodes = <<>>
    /\ B = {}
    /\ mono = FALSE
    /\ pc = "test_func"
    /\ stack = <<>>
    /\ cache = EmptyCache
    /\ known_good = <<>>
    /\ bad = <<>>
    /\ group = nodes
    /\ passed = FALSE
    /\ i = 0
    /\ identified_bad = <<>>
    /\ remaining = <<>>
    /\ remaining_passed = FALSE
    /\ result = {}
    /\ returned = <<>>
    /\ calls = <<>>
    /\ excl = <<>>
    /\ swapped = FALSE
    /\ runNo = 1
    /\ prevCalls = <<>>
    /\ prevResult = {}
    /\ popped = <<>>
    /\ running = 0
    /\ spans = <<>>
    /\ span = <<1, 0>>
    /\ hostfile = [found |-> TRUE, lines |-> <<>>]
    /\ \E t \in Tools, m \in 0..MaxBw :
          /\ t = "allgather" => m = 0
          /\ mpirun = [phase |-> "start", tool |-> t, min_bandwidth |-> m,
                       exit_code |-> 0, line |-> "none", bw |-> 0, verdict |-> FALSE]

(* proc = subprocess.run(cmd, ...): the process runs and exits *)
RunMpirun ==
    /\ pc = "test_func"
    /\ mpirun.phase = "start"
    /\ \E e \in ExitCodes, l \in Lines, b \in 0..MaxBw :
          /\ l # "number" => b = 0
          /\ mpirun' = [mpirun EXCEPT !.phase = "exited", !.exit_code = e,
                                      !.line = l, !.bw = b]
    /\ running' = running + 1
    /\ UNCHANGED <<inputs, pc, stack, spans, cache, known_good, bad, group, span, passed, i,
                   identified_bad, remaining, remaining_passed, result, returned, calls,
                   excl, swapped, runNo, hist2, popped>>

(* test_func computes passed and returns it *)
TestFuncReturn ==
    /\ pc = "test_func"
    /\ mpirun.phase = "exited"
    /\ mpirun' = [mpirun EXCEPT
          !.phase = "returned",
          !.verdict = IF mpirun.tool = "allgather"
                      THEN AllgatherPassed(mpirun.exit_code, mpirun.line, mpirun.bw)
                      ELSE AllreducePassed(mpirun.exit_code, mpirun.line, mpirun.bw,
                                           mpirun.min_bandwidth)]
    /\ running' = running - 1
    /\ UNCHANGED <<inputs, pc, stack, spans, cache, known_good, bad, group, span, passed, i,
                   identified_bad, remaining, remaining_passed, result, returned, calls,
                   excl, swapped, runNo, hist2, popped>>

NextTest == RunMpirun \/ TestFuncReturn

SpecTest == InitTest /\ [][NextTest]_vars

----------------------------------------------------------------------------
(* read_nodes: the hostfile is a sequence of lines, a line a sequence of     *)
(* characters (the trailing newline, which strip() and split() drop, is left *)
(* out); a node identifier is the sequence of characters of its token.       *)

MaxLines   == 2                     \* longest hostfile, in lines
MaxLineLen == 3                     \* longest line, in characters
Chars == {" ", "#", "a", "b"}
NotFound == [found |-> FALSE, lines |-> <<>>]   \* open(hostfile) raises FileNotFoundError
Found(f) == [found |-> TRUE, lines |-> f]

\* the characters from position k up to the next blank
RECURSIVE TokenFrom(_, _)
TokenFrom(line, k) ==
    IF k > Len(line) \/ line[k] = " " THEN <<>>
    ELSE <<line[k]>> \o TokenFrom(line, k + 1)

\* line.strip() is non-empty
NonBlank(line) == \E k \in 1..Len(line) : line[k] # " "

\* line.split()[0], for a line that has a token
FirstToken(line) ==
    TokenFrom(line, CHOOSE k \in 1..Len(line) :
                        line[k] # " " /\ \A j \in 1..(k - 1) : line[j] = " ")

\* [line.split()[0] for line in f if line.strip()]
RECURSIVE read_nodes(_)
read_nodes(f) ==
    IF f = <<>> THEN <<>>
    ELSE IF NonBlank(Head(f)) THEN <<FirstToken(Head(f))>> \o read_nodes(Tail(f))
    ELSE read_nodes(Tail(f))

InitRead ==
    /\ pc = "read_nodes"
    /\ hostfile \in {Found(f) : f \in SeqsUpTo(SeqsUpTo(Chars, MaxLineLen), MaxLines)}
                     \cup {NotFound}
    /\ nodes = <<>>
    /\ min_group = 2
    /\ good_nodes = <<>>
    /\ B = {}
    /\ mono = FALSE
    /\ Fresh

(* nodes = read_nodes(args.hostfile); a missing file ends the program *)
ReadNodes ==
    /\ pc = "read_nodes"
    /\ IF ~hostfile.found
       THEN pc' = "exit" /\ UNCHANGED nodes
       ELSE pc' = "main" /\ nodes' = read_nodes(hostfile.lines)
    /\ UNCHANGED <<min_group, good_nodes, B, mono, hostfile, stack, spans, cache, known_good,
                   bad, group, span, passed, i, identified_bad, remaining, remaining_passed,
                   result, returned, calls, excl, swapped, runNo, hist2, popped, running, mpirun>>

NextRead == ReadNodes

SpecRead == InitRead /\ [][NextRead]_vars

----------------------------------------------------------------------------
(* Properties *)

CountSite(site) == Cardinality({c \in 1..Len(calls) : calls[c].site = site})

Single8 == Len(nodes) = 8 /\ Cardinality(B) = 1 /\ mono /\ good_nodes = <<>>
Multi8  == Len(nodes) = 8 /\ B = {3, 7} /\ mono /\ good_nodes = <<>> /\ min_group = 2
LastPair == {nodes[7], nodes[8]}
Pair56   == {nodes[5], nodes[6]}

\* the popped group was failing, of size <= min_group, and its scan is over
Processed == pc = "loop" /\ group # <<>> /\ ~passed /\ Len(group) <= min_group

\* C1 as stated: with 8 distinct nodes, one faulty node k, no known-good list
\* and min_group in {1, 2, 4}, bisect_nodes returns exactly {k}.
C1_Original ==
    (pc = "done" /\ Single8 /\ min_group \in {1, 2, 4}) => result = B

\* C1 amended: the result is exactly {k}, except that for min_group = 2 with k
\* in one of the last two positions of the list the result is the two nodes
\* of that last pair.
C1_SingleFault ==
    (pc = "done" /\ Single8 /\ min_group \in {1, 2, 4})
        => result = (IF min_group = 2 /\ B \subseteq LastPair THEN LastPair ELSE B)

C1_Witness ==
    pc = "done" /\ Single8 /\ min_group = 2 /\ B = {nodes[8]} /\ result = LastPair

\* C2 as stated: with 8 distinct nodes, faulty nodes 3 and 7, min_group = 2 and
\* no known-good list, bisect_nodes returns exactly {3, 7}.
C2_Original == (pc = "done" /\ Multi8) => result = {3, 7}

\* C2 amended: the result contains 3 and 7; it is exactly {3, 7} when neither
\* is in the last two positions of the list; otherwise the whole last pair is
\* returned, and the whole pair at positions 5 and 6 too when that pair holds
\* the other faulty node.
C2_MultiFault ==
    (pc = "done" /\ Multi8)
        => result = B \cup (IF LastPair \cap B = {} THEN {}
                            ELSE LastPair \cup (IF Pair56 \cap B = {} THEN {} ELSE Pair56))

C2_Witness ==
    pc = "done" /\ Multi8 /\ nodes = Rot8(0) /\ result = {3, 7, 8}

\* C3: when the oracle returns pass for every group, bisect_nodes returns the
\* empty set.
C3_AllPass ==
    (pc = "done" /\ \A c \in 1..Len(calls) : calls[c].verdict) => result = {}

C3_Witness ==
    /\ pc = "done" /\ Len(nodes) >= 2 /\ calls # <<>>
    /\ \A c \in 1..Len(calls) : calls[c].verdict
    /\ result = {}

\* the canonical form of the specification: sorted and deduplicated
RECURSIVE Dedup(_)
Dedup(s) ==
    IF Len(s) <= 1 THEN s
    ELSE IF s[1] = s[2] THEN Dedup(Tail(s))
    ELSE <<s[1]>> \o Dedup(Tail(s))

Canonical(g) == Dedup(sorted(g))

\* C4 as stated: no two oracle calls of a run are on groups with the same
\* sorted, deduplicated form.
C4_Original ==
    \A a, b \in 1..Len(calls) :
        a # b => Canonical(calls[a].arg) # Canonical(calls[b].arg)

\* C4 amended: no two oracle calls of a run are on groups with the same cache
\* key, the sorted sequence of the group's members with duplicates kept.
C4_OncePerKey ==
    Cardinality({KeyOf(calls[c].arg) : c \in 1..Len(calls)}) = Len(calls)

\* the same key was evaluated a second time and answered from the cache
C4_Witness ==
    /\ pc = "branch" /\ calls # <<>>
    /\ KeyOf(calls[Len(calls)].arg) # KeyOf(group)
    /\ \E c \in 1..Len(calls) : KeyOf(calls[c].arg) = KeyOf(group)

\* C5: under a monotone oracle with bad set B, every node of B that is in the
\* input list is in the returned set.
C5_NoFalseNegative ==
    (pc = "done" /\ mono) => (B \cap Elems(nodes)) \subseteq result

C5_Witness ==
    /\ pc = "done" /\ mono /\ Cardinality(B \cap Elems(nodes)) = 2
    /\ good_nodes # <<>> /\ Len(nodes) > min_group
    /\ (B \cap Elems(nodes)) \subseteq result

\* C6 as stated: single fault, 8 nodes, min_group = 2: at most 3 oracle calls
\* on work-list groups and at most 2 on exclusion candidates.
C6_Original ==
    (Single8 /\ min_group = 2)
        => CountSite("group") <= 3 /\ CountSite("remaining") <= 2

\* C6 amended: at most 5 oracle calls on work-list groups and at most 2 on
\* exclusion candidates.
C6_CallBound ==
    (Single8 /\ min_group = 2)
        => CountSite("group") <= 5 /\ CountSite("remaining") <= 2

C6_Witness ==
    /\ pc = "done" /\ Single8 /\ min_group = 2
    /\ CountSite("group") = 5 /\ CountSite("remaining") = 2

\* C7: a popped single-node group [n] whose verdict is fail, with an empty
\* known-good set: no exclusion candidate is evaluated and n is in the result.
C7_SingleNodeFallback ==
    (/\ pc \in {"excl", "call_remaining", "excl_check", "loop"}
     /\ Len(group) = 1 /\ ~passed /\ known_good = <<>>)
        => /\ pc \in {"excl", "loop"}
           /\ excl \in {<<>>, <<"skipped">>}
           /\ pc = "loop" => (excl = <<"skipped">> /\ group[1] \in Elems(bad))

C7_Witness ==
    /\ pc = "loop" /\ Len(group) = 1 /\ ~passed /\ known_good = <<>>
    /\ excl = <<"skipped">> /\ bad = group /\ stack # <<>>

\* C8: after a failing group G of size <= min_group is processed, some member
\* of G is in the result set, and every member is when no candidate passed.
C8_NeverDropped ==
    Processed
        => /\ Elems(group) \cap Elems(bad) # {}
           /\ (\A j \in 1..Len(excl) : excl[j] # "pass") => Elems(group) \subseteq Elems(bad)

C8_Witness ==
    /\ Processed /\ Len(group) = 2 /\ excl = <<"fail", "fail">>
    /\ Elems(group) \subseteq Elems(bad)

\* C9 as stated: the variant that pushes group[mid:] before group[:mid]
\* returns the same set as the program.
C9_Original == (runNo = 2 /\ pc = "done") => result = prevResult

Distinct(s) == \A a, b \in 1..Len(s) : a # b => s[a] # s[b]

\* C9 amended: for a deterministic oracle and a non-empty initial known-good
\* list, the variant returns the same set as the program when the input list
\* has no duplicate node or the oracle is monotone (fails exactly on the groups
\* that contain a bad node).
C9_SwapWithSeed ==
    (runNo = 2 /\ pc = "done" /\ good_nodes # <<>> /\ (Distinct(nodes) \/ mono))
        => result = prevResult

\* the two runs traversed the groups in different orders and agree
C9_Witness ==
    /\ runNo = 2 /\ pc = "done" /\ swapped /\ good_nodes # <<>> /\ Distinct(nodes)
    /\ Len(nodes) >= 2 /\ calls # prevCalls
    /\ result = prevResult /\ result # {}

\* C10: a second run on the same inputs against the same deterministic oracle
\* makes the same sequence of oracle calls and returns the same set.
C10_Deterministic ==
    (runNo = 2 /\ pc = "done") => (calls = prevCalls /\ result = prevResult)

C10_Witness ==
    /\ runNo = 2 /\ pc = "done" /\ ~mono /\ Len(calls) >= 3
    /\ calls = prevCalls /\ result = prevResult /\ result # {}

\* C11: once bisect_nodes has started, for any oracle and min_group >= 1, the
\* work stack eventually becomes empty and bisect_nodes returns.
C11_Terminates == (pc = "loop") ~> (pc = "done" /\ stack = <<>>)

C11_Witness ==
    /\ pc = "done" /\ stack = <<>> /\ ~mono /\ Len(nodes) = MaxLen
    /\ \E a, b \in 1..Len(calls) : calls[a].verdict /\ ~calls[b].verdict

\* C12: with an empty node list main aborts (sys.exit(1)) before bisect_nodes
\* starts, and the oracle is never invoked.
C12_EmptyListAborts ==
    nodes = <<>> => (pc \in {"main", "exit"} /\ calls = <<>> /\ running = 0 /\ stack = <<>>)

C12_Witness == nodes = <<>> /\ pc = "exit" /\ calls = <<>>

\* C13: every node in the result set is an input node and a member of a
\* popped group that failed with size <= min_group; a filler node is not
\* reported for having been used as padding.
C13_ViaExclusion ==
    \A n \in Elems(bad) \cup result :
        /\ n \in Elems(nodes)
        /\ \E c \in 1..Len(popped) :
              /\ ~popped[c].passed
              /\ Len(popped[c].group) <= min_group
              /\ n \in Elems(popped[c].group)

\* a filler from outside the list was used in a test and is not reported
C13_Witness ==
    /\ pc = "done" /\ result # {} /\ good_nodes # <<>>
    /\ good_nodes[1] \notin Elems(nodes)
    /\ \E c \in 1..Len(calls) :
          calls[c].site = "remaining" /\ good_nodes[1] \in Elems(calls[c].arg)
    /\ good_nodes[1] \notin result

Count(s, x) == Cardinality({j \in 1..Len(s) : s[j] = x})

\* the same members, each as often, in a different order
Reordered(g, h) ==
    /\ g # h
    /\ Len(g) = Len(h)
    /\ \A x \in Elems(g) \cup Elems(h) : Count(g, x) = Count(h, x)

\* C14: a group with the same members as an earlier tested group, in another
\* order, is answered from the cache: no oracle call, the earlier verdict.
C14_OrderInsensitive ==
    /\ pc = "call_group" => \A c \in 1..Len(calls) : ~Reordered(calls[c].arg, group)
    /\ pc = "call_remaining" => \A c \in 1..Len(calls) : ~Reordered(calls[c].arg, remaining)
    /\ pc = "branch" =>
          \A c \in 1..Len(calls) : Reordered(calls[c].arg, group) => passed = calls[c].verdict
    /\ pc = "excl_check" =>
          \A c \in 1..Len(calls) :
              Reordered(calls[c].arg, remaining) => remaining_passed = calls[c].verdict

\* a popped group, or an exclusion candidate, answered from the verdict of an
\* earlier call on the same members in another order
C14_Witness ==
    /\ ~mono
    /\ \/ /\ pc = "branch"
          /\ \E c \in 1..Len(calls) :
                Reordered(calls[c].arg, group) /\ passed = calls[c].verdict
       \/ /\ pc = "excl_check"
          /\ \E c \in 1..Len(calls) :
                Reordered(calls[c].arg, remaining) /\ remaining_passed = calls[c].verdict

\* C15: a stored verdict is never overwritten or removed during a run, and a
\* later evaluation of its key takes the stored verdict without an oracle call.
C15_WriteOnce ==
    [][ /\ \A k \in DOMAIN cache : k \in DOMAIN cache' /\ cache'[k] = cache[k]
        /\ (pc = "loop" /\ pc' \in {"branch", "call_group"}) =>
              IF KeyOf(group') \in DOMAIN cache
              THEN pc' = "branch" /\ passed' = cache[KeyOf(group')] /\ calls' = calls
              ELSE pc' = "call_group"
        /\ (pc = "excl" /\ pc' \in {"excl_check", "call_remaining"}) =>
              IF KeyOf(remaining') \in DOMAIN cache
              THEN /\ pc' = "excl_check"
                   /\ remaining_passed' = cache[KeyOf(remaining')]
                   /\ calls' = calls
              ELSE pc' = "call_remaining"
      ]_vars

\* a candidate answered from an entry stored earlier, by an oracle free to
\* answer differently
C15_Witness ==
    /\ pc = "excl_check" /\ ~mono /\ Cardinality(DOMAIN cache) >= 3
    /\ KeyOf(calls[Len(calls)].arg) # KeyOf(remaining)
    /\ remaining_passed = cache[KeyOf(remaining)]

IsPrefix(a, b) == Len(a) <= Len(b) /\ SubSeq(b, 1, Len(a)) = a

\* C16: known_good only grows at its end, by members of popped groups that
\* passed (or it is the seed); the exclusion scan leaves it alone.
C16_KnownGoodAppendOnly ==
    [][ /\ IsPrefix(known_good, known_good')
        /\ pc \in {"excl", "call_remaining", "excl_check"} => known_good' = known_good
        /\ \A n \in Elems(known_good') :
              \/ n \in Elems(good_nodes)
              \/ \E c \in 1..Len(popped') :
                    popped'[c].passed /\ n \in Elems(popped'[c].group)
      ]_vars

C16_Witness ==
    /\ pc = "loop" /\ good_nodes # <<>> /\ bad # <<>>
    /\ Len(known_good) >= Len(good_nodes) + 2
    /\ IsPrefix(good_nodes, known_good)

\* C17: test_func is never called with an empty list.
C17_NeverEmpty ==
    /\ \A c \in 1..Len(calls) : calls[c].arg # <<>>
    /\ pc = "call_group" => group # <<>>
    /\ pc = "call_remaining" => remaining # <<>>

\* the candidate of a single-node group: empty, then padded to one entry
C17_Witness ==
    pc = "call_remaining" /\ Len(group) = 1 /\ Len(remaining) = 1

\* C18: every exclusion candidate that is evaluated has at least 2 entries.
C18_TwoParticipants ==
    pc \in {"call_remaining", "excl_check"} => Len(remaining) >= 2

InFlight == pc \in {"call_group", "call_remaining"}

\* C19: at most one test process runs at a time, and while it runs nothing
\* happens but its return, which leaves known_good, bad and the stack alone
\* and adds to the cache only the entry of the returned call.
C19_Serialized ==
    [][ /\ running \in {0, 1} /\ running' \in {0, 1}
        /\ (running = 1) <=> InFlight
        /\ running = 1 =>
              /\ running' = 0
              /\ known_good' = known_good /\ bad' = bad /\ stack' = stack
              /\ Len(calls') = Len(calls) + 1
              /\ DOMAIN cache' = DOMAIN cache \cup {KeyOf(calls'[Len(calls')].arg)}
              /\ \A k \in DOMAIN cache : cache'[k] = cache[k]
      ]_vars

C19_Witness ==
    pc = "excl_check" /\ running = 0 /\ Len(calls) >= 3 /\ calls[Len(calls)].arg = remaining

\* C20: in both tools, when mpirun exits with a non-zero code (process error
\* or killed by the timeout wrapper), test_func returns fail.
C20_NonZeroExitFails ==
    (mpirun.phase = "returned" /\ mpirun.exit_code # 0) => ~mpirun.verdict

\* a line whose first non-blank character is "#"
IsComment(line) == NonBlank(line) /\ FirstToken(line)[1] = "#"

\* the lines that are neither blank nor comments, in file order
RECURSIVE HostLines(_)
HostLines(f) ==
    IF f = <<>> THEN <<>>
    ELSE IF NonBlank(Head(f)) /\ ~IsComment(Head(f))
         THEN <<Head(f)>> \o HostLines(Tail(f))
         ELSE HostLines(Tail(f))

\* C21: the node list has one identifier per non-blank, non-comment line of
\* the hostfile, in file order, each the first whitespace-separated token of
\* its line; blank lines and comment lines contribute no node.
C21_OnePerHostLine ==
    pc = "main" =>
        /\ Len(nodes) = Len(HostLines(hostfile.lines))
        /\ \A k \in 1..Len(nodes) : nodes[k] = FirstToken(HostLines(hostfile.lines)[k])

\* C22: the returned list contains each node at most once, and exactly the
\* nodes added to bad, also when bad holds a node several times.
C22_EachOnce ==
    pc = "done" =>
        /\ \A a, b \in 1..Len(returned) : a # b => returned[a] # returned[b]
        /\ Elems(returned) = Elems(bad)

\* a node was added to bad several times (a list with a repeated node) and is
\* returned once, next to another node
C22_Witness ==
    /\ pc = "done" /\ Len(returned) = 2 /\ returned[1] # returned[2]
    /\ \E n \in Elems(bad) : Count(bad, n) >= 2

\* the candidates of position k of group g: g without position k, with one
\* known-good node appended when that leaves fewer than 2 entries
Candidates(g, k, kg) ==
    IF Len(RemoveAt(g, k)) >= 2 THEN {RemoveAt(g, k)}
    ELSE {Append(RemoveAt(g, k), n) : n \in Elems(kg)}

\* the members of g at the positions whose candidate verdict in e is pass
RECURSIVE Identified(_, _)
Identified(g, e) ==
    IF e = <<>> THEN <<>>
    ELSE LET rest == Identified(g, SubSeq(e, 1, Len(e) - 1))
         IN  IF e[Len(e)] = "pass" THEN Append(rest, g[Len(e)]) ELSE rest

\* C23: in the exclusion scan of a failing group G with |G| <= min_group, the
\* member at position i is identified iff its candidate was evaluated (by the
\* oracle or from the cache) with verdict pass; when some member is
\* identified, the group adds exactly the identified members to bad.
C23_IdentifiedIffPass ==
    [][ /\ pc \in {"excl", "call_remaining", "excl_check"} =>
              /\ ~passed /\ Len(group) <= min_group
              /\ identified_bad = Identified(group, excl)
        /\ pc = "excl_check" =>
              /\ remaining \in Candidates(group, i, known_good)
              /\ KeyOf(remaining) \in DOMAIN cache
              /\ remaining_passed = cache[KeyOf(remaining)]
              /\ excl' = Append(excl, IF cache[KeyOf(remaining)] THEN "pass" ELSE "fail")
        /\ (pc = "excl" /\ pc' = "excl") =>
              /\ Candidates(group, i, known_good) = {}
              /\ excl' = Append(excl, "skipped")
        /\ (pc = "excl" /\ pc' = "loop") =>
              /\ Len(excl) = Len(group)
              /\ identified_bad # <<>> => bad' = bad \o identified_bad
      ]_vars

\* of a failing pair the second member was identified, the first was not,
\* and only the second was added
C23_Witness ==
    /\ Processed /\ Len(group) = 2 /\ excl = <<"fail", "pass">>
    /\ identified_bad = <<group[2]>> /\ bad = <<group[2]>> /\ group[1] # group[2]

\* C24: a popped group G with verdict fail and |G| > min_group is replaced by
\* G[0:mid] and G[mid:], mid = floor(|G| / 2), pushed in that order: both are
\* non-empty and shorter than G, they concatenate to G, the first is shorter
\* by one when |G| is odd, the second is on top (popped first), and the step
\* changes neither bad nor known_good and makes no test.
C24_SplitStep ==
    [][ /\ (pc = "branch" /\ ~passed /\ Len(group) > min_group) =>
              LET mid == Len(group) \div 2
                  lo  == [j \in 1..mid |-> group[j]]
                  hi  == [j \in 1..(Len(group) - mid) |-> group[mid + j]]
              IN  /\ stack' = stack \o <<lo, hi>>
                  /\ lo # <<>> /\ hi # <<>>
                  /\ Len(lo) < Len(group) /\ Len(hi) < Len(group)
                  /\ lo \o hi = group
                  /\ Len(hi) - Len(lo) = Len(group) % 2
                  /\ stack'[Len(stack')] = hi
                  /\ bad' = bad /\ known_good' = known_good
                  /\ calls' = calls /\ cache' = cache /\ running' = 0
                  /\ pc' = "loop"
        /\ (pc = "loop" /\ stack # <<>>) =>
              /\ group' = stack[Len(stack)]
              /\ stack' = [j \in 1..(Len(stack) - 1) |-> stack[j]]
      ]_vars

\* a failing group of three has just been split into one and two
C24_Witness ==
    /\ pc = "loop" /\ ~passed /\ Len(group) = 3 /\ min_group < 3 /\ Len(stack) >= 2
    /\ stack[Len(stack)] = <<group[2], group[3]>>
    /\ stack[Len(stack) - 1] = <<group[1]>>

\* C25: when the popped group has verdict pass, every member is in known_good
\* afterwards, and the step pushes nothing, adds nothing to bad and leads to
\* the next pop without any test.
C25_PassStep ==
    [][ (pc = "branch" /\ passed) =>
            /\ \A j \in 1..Len(group) : \E k \in 1..Len(known_good') : known_good'[k] = group[j]
            /\ stack' = stack
            /\ bad' = bad
            /\ calls' = calls /\ cache' = cache /\ running' = 0
            /\ pc' = "loop"
      ]_vars

\* a pair of different nodes passed while another group waits on the stack
C25_Witness ==
    /\ pc = "loop" /\ passed /\ Len(group) = 2 /\ group[1] # group[2]
    /\ stack # <<>> /\ good_nodes = <<>>
    /\ known_good = group

\* C26: when the candidate of a suspect has fewer than 2 entries and
\* known_good is empty, the candidate causes no oracle call and no cache
\* write, the suspect is not identified, and the scan goes on with the next
\* member of the group, the stack untouched.
C26_SkipWithoutKnownGood ==
    [][ (pc = "excl" /\ i <= Len(group) /\ Len(group) - 1 < 2 /\ known_good = <<>>) =>
            /\ calls' = calls /\ running' = 0
            /\ cache' = cache
            /\ identified_bad' = identified_bad
            /\ pc' = "excl" /\ i' = i + 1 /\ group' = group
            /\ stack' = stack /\ bad' = bad
      ]_vars

\* the first member of a failing pair was skipped: the scan is at the second
\* member and another group is still on the stack
C26_Witness ==
    /\ pc = "excl" /\ Len(group) = 2 /\ i = 2 /\ excl = <<"skipped">>
    /\ known_good = <<>> /\ identified_bad = <<>> /\ stack # <<>>

\* the popped groups that are terminal: pass, or fail with size <= min_group
Terminal == {c \in 1..Len(popped) : popped[c].passed \/ Len(popped[c].group) <= min_group}

\* the last popped group is neither terminal nor split yet
Pending == pc = "call_group" \/ (pc = "branch" /\ ~passed /\ Len(group) > min_group)

\* how many groups on the stack, terminal or pending hold position p of nodes
Holders(p) ==
    Cardinality({j \in 1..Len(spans) : spans[j][1] <= p /\ p <= spans[j][2]})
    + Cardinality({c \in Terminal : popped[c].span[1] <= p /\ p <= popped[c].span[2]})
    + (IF Pending /\ span[1] <= p /\ p <= span[2] THEN 1 ELSE 0)

\* C28: during bisect_nodes the groups on the stack are pairwise disjoint
\* contiguous slices of nodes; every position of nodes is in exactly one group
\* that is on the stack or was popped as a terminal group (or is the group
\* being handled); no group is pushed or popped twice.
C28_Partition ==
    pc \notin {"main", "exit"} =>
        /\ Len(spans) = Len(stack)
        /\ \A j \in 1..Len(stack) :
              /\ 1 <= spans[j][1] /\ spans[j][1] <= spans[j][2] /\ spans[j][2] <= Len(nodes)
              /\ stack[j] = [k \in 1..(spans[j][2] - spans[j][1] + 1) |-> nodes[spans[j][1] + k - 1]]
        /\ \A j, k \in 1..Len(stack) :
              j # k => (spans[j][2] < spans[k][1] \/ spans[k][2] < spans[j][1])
        /\ \A p \in 1..Len(nodes) : Holders(p) = 1
        /\ Cardinality({popped[c].span : c \in 1..Len(popped)}) = Len(popped)
        /\ {popped[c].span : c \in 1..Len(popped)} \cap {spans[j] : j \in 1..Len(spans)} = {}

\* two groups wait on the stack, one terminal group has been popped, of a
\* list that repeats a node
C28_Witness ==
    /\ pc = "loop" /\ Len(stack) = 2 /\ Len(nodes) = 3 /\ ~Distinct(nodes)
    /\ Terminal # {} /\ Len(popped) >= 3

\* C27: on the same node list, oracle, min_group and initial known-good list,
\* bisect_nodes of the AllReduce tool makes the same oracle calls, in the same
\* order and with the same arguments, as bisect_nodes of the AllGather tool,
\* and returns the same set.
C27_SameCallsSameResult ==
    (runNo = 2 /\ pc = "done") =>
        /\ Len(calls) = Len(prevCalls)
        /\ \A c \in 1..Len(calls) :
              /\ calls[c].arg = prevCalls[c].arg
              /\ calls[c].site = prevCalls[c].site
              /\ calls[c].verdict = prevCalls[c].verdict
        /\ Elems(returned) = prevResult

\* both tools bisected a failing list with a seed, tested candidates, and
\* agree on a non-empty result
C27_Witness ==
    /\ runNo = 2 /\ pc = "done" /\ ~mono /\ good_nodes # <<>>
    /\ Len(nodes) = 3 /\ min_group < 3
    /\ calls = prevCalls /\ CountSite("remaining") >= 1 /\ CountSite("group") >= 3
    /\ result = prevResult /\ result # {}

\* C29: when the input list has no repeated node and no initial known-good
\* list is given, no node is both in bad (or the returned list) and in
\* known_good, whatever the oracle answers.
C29_BadGoodDisjoint ==
    (Distinct(nodes) /\ good_nodes = <<>>) =>
        \A n \in Elems(bad) \cup Elems(returned) : \A k \in 1..Len(known_good) : known_good[k] # n

\* an oracle that is not monotone: the list fails, one node passes alone and
\* pads the candidate of the other, which is reported
C29_Witness ==
    /\ pc = "done" /\ Distinct(nodes) /\ good_nodes = <<>> /\ ~mono
    /\ Len(nodes) >= 4 /\ Len(returned) >= 2 /\ Len(known_good) >= 2
    /\ CountSite("remaining") >= 2
    /\ Elems(returned) \cap Elems(known_good) = {}

\* the list has no repeated node, the oracle fails iff the group contains the
\* one faulty node of the list, and the seed is not empty and truthful
TruthfulSeed ==
    /\ Distinct(nodes) /\ mono /\ Cardinality(B) = 1 /\ B \subseteq Elems(nodes)
    /\ good_nodes # <<>> /\ Elems(good_nodes) \cap B = {}

\* C30: for a list of distinct nodes with exactly one faulty node k, the
\* oracle that fails iff the group contains k, and a non-empty initial
\* known-good list without k, bisect_nodes returns exactly k, for every
\* ordering of the list and every min_group >= 1.
C30_ExactWithSeed ==
    (pc = "done" /\ TruthfulSeed) => (Len(returned) = 1 /\ B = {returned[1]})

\* the faulty node is the last of the list and min_group is 2: the case in
\* which, without a seed, its neighbour is reported too
C30_Witness ==
    /\ pc = "done" /\ TruthfulSeed /\ Len(nodes) >= 4 /\ min_group = 2
    /\ B = {nodes[Len(nodes)]} /\ returned = <<nodes[Len(nodes)]>>
    /\ CountSite("remaining") >= 1

====
